---- MODULE Spec2Model ----
(***************************************************************************)
(* Zookeeper's Challenge (src/src/zookeeper_challenge.cpp): the helpers of *)
(* the unnamed namespace as operators over strings, and main() as a state  *)
(* machine that loads the name pools, streams the arrival lines, and       *)
(* renders the habitat report.                                             *)
(*                                                                         *)
(* A std::string is a TLA+ string; positions are 0-based as in the source  *)
(* and npos is -1.  A function that can throw returns a record             *)
(* [ok, val, what]: ok = FALSE carries the exception's what() text.        *)
(***************************************************************************)
EXTENDS Integers, Sequences, FiniteSets, TLC

VARIABLES
    pc,               \* position of main(): the phase of the run
    namesFile,        \* data/animalNames.txt: its lines, or NoFile
    arrivalsFile,     \* data/arrivingAnimals.txt: its lines, or NoFile
    names,            \* main: names (species key -> remaining names)
    linePos,          \* number of lines std::getline has read from arrivalFile
    animals,          \* main: animals (the owning vector)
    animalsByHabitat, \* main: animalsByHabitat (habitat -> indices into animals)
    idCounters,       \* main: idCounters (prefix -> last sequence number)
    speciesCounts,    \* main: speciesCounts (species key -> entities created)
    openFiles,        \* the file streams currently open
    reportOpened,     \* the report file has been opened (truncated) in this run
    report,           \* the lines written to zooPopulation.txt
    renderPos,        \* number of habitats of habitatOrder already printed
    exitCode,         \* main's return value, -1 while running
    errWhat,          \* ex.what() printed by the top-level handler
    uCall,            \* unit runs: the arguments of the last call
    uRet,             \* unit runs: the result of the last call
    uHist             \* unit runs: what the earlier calls returned (for genUniqueId,
                      \* per prefix, its ids)

vars == <<pc, namesFile, arrivalsFile, names, linePos, animals, animalsByHabitat,
          idCounters, speciesCounts, openFiles, reportOpened, report, renderPos,
          exitCode, errWhat, uCall, uRet, uHist>>

-----------------------------------------------------------------------------
(* Bounds of the model *)

MaxLines == 3

MaxLongLines == 6

MaxFairLines == 2

MaxIdCalls == 11

MaxAge == 6

MaxSplitLen == 4

MaxSpeciesLines == 2

-----------------------------------------------------------------------------
(* Characters and std::string primitives *)

npos == -1

\* a local variable: v is evaluated once and Op applied to its value
Bind(v, Op(_)) == CHOOSE r \in {Op(x) : x \in {v}} : TRUE

Ok(v) == [ok |-> TRUE, val |-> v, what |-> ""]

Throw(msg) == [ok |-> FALSE, val |-> "", what |-> msg]

At(s, i) == SubSeq(s, i + 1, i + 1)

substr(s, pos, n) == SubSeq(s, pos + 1, IF pos + n > Len(s) THEN Len(s) ELSE pos + n)

substrFrom(s, pos) == SubSeq(s, pos + 1, Len(s))

\* the "C" locale's white space (the vertical tab has no TLA+ escape and is in no input)
isspace(ch) == ch \in {" ", "\t", "\n", "\r", "\f"}

UpperChars == "ABCDEFGHIJKLMNOPQRSTUVWXYZ"

LowerChars == "abcdefghijklmnopqrstuvwxyz"

DigitChars == "0123456789"

DigitOf == [i \in 0..9 |-> At(DigitChars, i)]

DigitValues == [ch \in {DigitOf[i] : i \in 0..9} |-> CHOOSE i \in 0..9 : DigitOf[i] = ch]

LowerOf == [ch \in {At(UpperChars, i) : i \in 0..25} |->
               At(LowerChars, CHOOSE i \in 0..25 : At(UpperChars, i) = ch)]

isdigit(ch) == ch \in DOMAIN DigitValues

digitVal(ch) == DigitValues[ch]

tolower(ch) == IF ch \in DOMAIN LowerOf THEN LowerOf[ch] ELSE ch

RECURSIVE findFrom(_, _, _)
findFrom(s, d, from) ==
    IF from + Len(d) > Len(s) THEN npos
    ELSE IF substr(s, from, Len(d)) = d THEN from
    ELSE findFrom(s, d, from + 1)

find(s, d) == findFrom(s, d, 0)

RECURSIVE skipSpace(_, _)
skipSpace(s, i) ==
    IF i < Len(s) /\ isspace(At(s, i)) THEN skipSpace(s, i + 1) ELSE i

RECURSIVE skipNonSpace(_, _)
skipNonSpace(s, i) ==
    IF i < Len(s) /\ ~isspace(At(s, i)) THEN skipNonSpace(s, i + 1) ELSE i

RECURSIVE skipSpaceBack(_, _)
skipSpaceBack(s, i) ==
    IF i > 0 /\ isspace(At(s, i - 1)) THEN skipSpaceBack(s, i - 1) ELSE i

trimRange(input, first, last) == IF first >= last THEN "" ELSE SubSeq(input, first + 1, last)

trim(input) ==
    Bind(input, LAMBDA v : trimRange(v, skipSpace(v, 0), skipSpaceBack(v, Len(v))))

RECURSIVE toLowerFrom(_, _)
toLowerFrom(value, i) ==
    IF i >= Len(value) THEN "" ELSE tolower(At(value, i)) \o toLowerFrom(value, i + 1)

toLower(value) == Bind(value, LAMBDA v : toLowerFrom(v, 0))

\* the tokens of value[from..): remaining is value with its first from characters erased
RECURSIVE splitFrom(_, _, _)
splitFrom(value, delimiter, from) ==
    Bind(findFrom(value, delimiter, from), LAMBDA pos :
        IF pos # npos
        THEN <<substr(value, from, pos - from)>> \o splitFrom(value, delimiter, pos + Len(delimiter))
        ELSE IF from < Len(value) THEN <<substrFrom(value, from)>> ELSE <<>>)

\* the tokens of value[from..) with what remains appended also when it is empty
RECURSIVE splitFrom_KeepsEmptyRemainder(_, _, _)
splitFrom_KeepsEmptyRemainder(value, delimiter, from) ==
    Bind(findFrom(value, delimiter, from), LAMBDA pos :
        IF pos # npos
        THEN <<substr(value, from, pos - from)>>
             \o splitFrom_KeepsEmptyRemainder(value, delimiter, pos + Len(delimiter))
        ELSE <<substrFrom(value, from)>>)

split_KeepsEmptyRemainder(value, delimiter) ==
    Bind(value, LAMBDA v : splitFrom_KeepsEmptyRemainder(v, delimiter, 0))

split(value, delimiter) == Bind(value, LAMBDA v : splitFrom(v, delimiter, 0))

-----------------------------------------------------------------------------
(* std::istringstream and operator>> as used by parseIsoDate and            *)
(* parseArrivalRow: a stream is [buf, pos, fail]; an extraction on a failed *)
(* stream does nothing; a failed extraction leaves 0 / "" in its target.    *)

IntMax == 2147483647

IntMin == -IntMax - 1

istringstream(s) == [buf |-> s, pos |-> 0, fail |-> FALSE]

RECURSIVE skipDigits(_, _)
skipDigits(s, i) ==
    IF i < Len(s) /\ isdigit(At(s, i)) THEN skipDigits(s, i + 1) ELSE i

\* the digits s[i..k) accumulated as a non-positive int; 1 when they do not fit
RECURSIVE digitsValue(_, _, _, _)
digitsValue(s, i, k, acc) ==
    IF i >= k THEN acc
    ELSE LET d == digitVal(At(s, i))
         IN  IF acc = 1 \/ acc < IntMin \div 10 + 1 \/ (acc = IntMin \div 10 + 1 /\ d > 8)
             THEN 1
             ELSE digitsValue(s, i + 1, k, acc * 10 - d)

\* the value of the digits s[j..k) under the sign: [found, val, range, end]
signedValue(neg, j, k, acc) ==
    [found |-> k > j,
     val   |-> IF acc # 1 /\ (neg \/ acc # IntMin) THEN (IF neg THEN acc ELSE -acc)
               ELSE IF neg THEN IntMin ELSE IntMax,
     range |-> acc # 1 /\ (neg \/ acc # IntMin),
     end   |-> k]

scanDigits(s, neg, j) ==
    Bind(skipDigits(s, j), LAMBDA k : signedValue(neg, j, k, digitsValue(s, j, k, 0)))

\* the value std::num_get / strtol read at position i0 of s (leading white
\* space skipped, optional sign, decimal digits)
scanInt(s, i0) ==
    Bind(skipSpace(s, i0), LAMBDA i :
        IF i < Len(s) /\ At(s, i) \in {"-", "+"}
        THEN scanDigits(s, At(s, i) = "-", i + 1)
        ELSE scanDigits(s, FALSE, i))

extractIntAt(st, r) ==
    IF ~r.found THEN [st |-> [st EXCEPT !.fail = TRUE], val |-> 0]
    ELSE [st |-> [st EXCEPT !.pos = r.end, !.fail = ~r.range], val |-> r.val]

extractInt(stream) ==
    Bind(stream, LAMBDA st :
        IF st.fail THEN [st |-> st, val |-> 0]
        ELSE Bind(scanInt(st.buf, st.pos), LAMBDA r : extractIntAt(st, r)))

extractCharAt(st, i) ==
    IF i >= Len(st.buf) THEN [st |-> [st EXCEPT !.pos = i, !.fail = TRUE], val |-> ""]
    ELSE [st |-> [st EXCEPT !.pos = i + 1], val |-> At(st.buf, i)]

extractChar(stream) ==
    Bind(stream, LAMBDA st :
        IF st.fail THEN [st |-> st, val |-> ""]
        ELSE Bind(skipSpace(st.buf, st.pos), LAMBDA i : extractCharAt(st, i)))

extractWordAt(st, i, k) ==
    IF i >= Len(st.buf) THEN [st |-> [st EXCEPT !.pos = i, !.fail = TRUE], val |-> ""]
    ELSE [st |-> [st EXCEPT !.pos = k], val |-> substr(st.buf, i, k - i)]

extractWord(stream) ==
    Bind(stream, LAMBDA st :
        IF st.fail THEN [st |-> st, val |-> ""]
        ELSE Bind(skipSpace(st.buf, st.pos), LAMBDA i :
                 extractWordAt(st, i, skipNonSpace(st.buf, i))))

\* std::stoi: throws when no digits are found or the value is out of range
stoi(s) ==
    Bind(scanInt(s, 0), LAMBDA r :
        IF ~r.found THEN Throw("stoi")
        ELSE IF ~r.range THEN Throw("stoi")
        ELSE Ok(r.val))

RECURSIVE natToString(_)
natToString(n) ==
    IF n < 10 THEN DigitOf[n]
    ELSE natToString(n \div 10) \o DigitOf[n % 10]

intToString(n) == IF n < 0 THEN "-" \o natToString(-n) ELSE natToString(n)

RECURSIVE fillLeft(_, _, _)
fillLeft(s, width, fill) ==
    IF Len(s) >= width THEN s ELSE fillLeft(fill \o s, width, fill)

\* out << std::setw(width) << std::setfill('0') << n
putInt(n, width) == fillLeft(intToString(n), width, "0")

-----------------------------------------------------------------------------
(* Date utilities *)

Date(y, m, d) == [year |-> y, month |-> m, day |-> d]

parseIsoDate(value) ==
    LET e1 == extractInt(istringstream(value))
        e2 == extractChar(e1.st)
        e3 == extractInt(e2.st)
        e4 == extractChar(e3.st)
        e5 == extractInt(e4.st)
    IN  IF e5.st.fail \/ e2.val # "-" \/ e4.val # "-"
        THEN Throw("Invalid ISO date: " \o value)
        ELSE Ok(Date(e1.val, e3.val, e5.val))

\* the month written without std::setw(2)
formatIsoDate_MonthNotPadded(date) ==
    putInt(date.year, 4) \o "-" \o intToString(date.month) \o "-" \o putInt(date.day, 2)

formatIsoDate(date) ==
    putInt(date.year, 4) \o "-" \o putInt(date.month, 2) \o "-" \o putInt(date.day, 2)

seasonToDate ==
    [s \in {"spring", "summer", "fall", "autumn", "winter"} |->
        CASE s = "spring" -> <<3, 15>>
          [] s = "summer" -> <<6, 15>>
          [] s = "fall"   -> <<9, 15>>
          [] s = "autumn" -> <<9, 15>>
          [] s = "winter" -> <<12, 15>>]

birthDateOf(age, normalizedSeason, arrival) ==
    IF normalizedSeason \in DOMAIN seasonToDate
    THEN Date(arrival.year - age, seasonToDate[normalizedSeason][1],
              seasonToDate[normalizedSeason][2])
    ELSE Date(arrival.year - age, arrival.month, arrival.day)

\* the season looked up as written, without toLower
genBirthDay_CaseSensitive(age, season, arrivalDate) ==
    Bind(parseIsoDate(arrivalDate), LAMBDA parsed :
        IF ~parsed.ok THEN parsed
        ELSE Ok(formatIsoDate(birthDateOf(age, season, parsed.val))))

genBirthDay(age, season, arrivalDate) ==
    Bind(parseIsoDate(arrivalDate), LAMBDA parsed :
        IF ~parsed.ok THEN parsed
        ELSE Ok(formatIsoDate(birthDateOf(age, toLower(season), parsed.val))))

-----------------------------------------------------------------------------
(* Identifier allocator; a std::map is a function whose domain is its keys *)

EmptyMap == <<>>

MapGet(m, k, default) == IF k \in DOMAIN m THEN m[k] ELSE default

MapPut(m, k, v) == [x \in (DOMAIN m) \cup {k} |-> IF x = k THEN v ELSE m[x]]

speciesPrefix(species) ==
    LET lowered == toLower(species)
    IN  IF lowered = "hyena" THEN Ok("Hy")
        ELSE IF lowered = "lion" THEN Ok("Li")
        ELSE IF lowered = "tiger" THEN Ok("Ti")
        ELSE IF lowered = "bear" THEN Ok("Be")
        ELSE Throw("Unsupported species: " \o species)

\* counters keyed by the species as written instead of by its prefix
genUniqueId_KeyedBySpecies(species, counters) ==
    Bind(speciesPrefix(species), LAMBDA prefix :
        IF ~prefix.ok
        THEN [ok |-> FALSE, val |-> "", what |-> prefix.what, counters |-> counters]
        ELSE Bind(MapGet(counters, species, 0) + 1, LAMBDA next :
                 [ok |-> TRUE, val |-> prefix.val \o putInt(next, 2), what |-> "",
                  counters |-> MapPut(counters, species, next)]))

\* the incremented counter not stored back
genUniqueId_CounterNotStored(species, counters) ==
    Bind(speciesPrefix(species), LAMBDA prefix :
        IF ~prefix.ok
        THEN [ok |-> FALSE, val |-> "", what |-> prefix.what, counters |-> counters]
        ELSE Bind(MapGet(counters, prefix.val, 0) + 1, LAMBDA next :
                 [ok |-> TRUE, val |-> prefix.val \o putInt(next, 2), what |-> "",
                  counters |-> counters]))

\* [ok, val, what, counters]: the id and the counters map after the call
genUniqueId(species, counters) ==
    Bind(speciesPrefix(species), LAMBDA prefix :
        IF ~prefix.ok
        THEN [ok |-> FALSE, val |-> "", what |-> prefix.what, counters |-> counters]
        ELSE Bind(MapGet(counters, prefix.val, 0) + 1, LAMBDA next :
                 [ok |-> TRUE, val |-> prefix.val \o putInt(next, 2), what |-> "",
                  counters |-> MapPut(counters, prefix.val, next)]))

-----------------------------------------------------------------------------
(* Animal hierarchy: an object is a record; cls is its dynamic type *)

Animal(cls, name, uniqueId, age, sex, color, weight, origin, arrivalDate, birthDate, group) ==
    [cls |-> cls, name |-> name, species |-> cls, uniqueId |-> uniqueId, age |-> age,
     sex |-> sex, color |-> color, weight |-> weight, origin |-> origin,
     arrivalDate |-> arrivalDate, birthDate |-> birthDate, socialGroup |-> group]

habitatName(a) ==
    CASE a.cls = "Hyena" -> "Hyena Habitat"
      [] a.cls = "Lion"  -> "Lion Habitat"
      [] a.cls = "Tiger" -> "Tiger Habitat"
      [] a.cls = "Bear"  -> "Bear Habitat"

socialGroupLabel(a) ==
    CASE a.cls = "Hyena" -> "Clan: " \o a.socialGroup
      [] a.cls = "Lion"  -> "Pride: " \o a.socialGroup
      [] a.cls = "Tiger" -> "Ambush: " \o a.socialGroup
      [] a.cls = "Bear"  -> "Sleuth: " \o a.socialGroup

\* the sex written before the color
reportLine_SexBeforeColor(a) ==
    a.uniqueId \o "; " \o a.name \o "; birth date " \o a.birthDate \o "; " \o a.sex
        \o "; " \o a.color \o " color; " \o intToString(a.weight) \o " pounds; from " \o a.origin
        \o "; arrived " \o a.arrivalDate

reportLine(a) ==
    a.uniqueId \o "; " \o a.name \o "; birth date " \o a.birthDate \o "; " \o a.color
        \o " color; " \o a.sex \o "; " \o intToString(a.weight) \o " pounds; from " \o a.origin
        \o "; arrived " \o a.arrivalDate

-----------------------------------------------------------------------------
(* Name pools and social groups *)

\* the tokens of a name line after its colon, trimmed, the empty ones dropped
trimmedTokens(tokens) ==
    SelectSeq([i \in 1..Len(tokens) |-> trim(tokens[i])], LAMBDA t : t # "")

nameLineAt(nameMap, line, colonPos) ==
    IF colonPos = npos THEN Throw("Expected ':' in name line: " \o line)
    ELSE Ok(MapPut(nameMap, toLower(trim(substr(line, 0, colonPos))),
                   trimmedTokens(split(trim(substrFrom(line, colonPos + 1)), ","))))

\* one iteration of the getline loop of loadAnimalNames on the map so far
loadNameLine(nameMap, rawLine) ==
    Bind(trim(rawLine), LAMBDA line :
        IF line = "" THEN Ok(nameMap) ELSE nameLineAt(nameMap, line, find(line, ":")))

RECURSIVE loadNameLines(_, _, _)
loadNameLines(nameMap, lines, i) ==
    IF i > Len(lines) THEN Ok(nameMap)
    ELSE Bind(loadNameLine(nameMap, lines[i]), LAMBDA r :
             IF ~r.ok THEN r ELSE loadNameLines(r.val, lines, i + 1))

loadAnimalNames(file) ==
    IF ~file.exists THEN Throw("Unable to open name file: data/animalNames.txt")
    ELSE loadNameLines(EmptyMap, file.lines, 1)

\* the front name returned without being erased
popNextName_KeepsFront(nameMap, speciesKey) ==
    LET pool == MapGet(nameMap, speciesKey, <<>>)
    IN  IF pool # <<>>
        THEN [val |-> Head(pool), names |-> MapPut(nameMap, speciesKey, pool)]
        ELSE [val |-> "Unnamed " \o speciesKey, names |-> MapPut(nameMap, speciesKey, <<>>)]

\* [val, names]: the name and the map after the call
popNextName(nameMap, speciesKey) ==
    LET pool == MapGet(nameMap, speciesKey, <<>>)
    IN  IF pool # <<>>
        THEN [val |-> Head(pool), names |-> MapPut(nameMap, speciesKey, Tail(pool))]
        ELSE [val |-> "Unnamed " \o speciesKey, names |-> MapPut(nameMap, speciesKey, <<>>)]

groups ==
    [s \in {"hyena", "lion", "tiger", "bear"} |->
        CASE s = "hyena" -> <<"Motto Clan", "Serengeti Clan", "Savannah Clan", "Spotted Clan">>
          [] s = "lion"  -> <<"Golden Pride", "Savanna Pride", "Sunset Pride", "River Pride">>
          [] s = "tiger" -> <<"Ember Ambush", "Jungle Ambush", "River Ambush", "Shadow Ambush">>
          [] s = "bear"  -> <<"Highland Sleuth", "Forest Sleuth", "Mountain Sleuth", "Valley Sleuth">>]

\* the rotation started one option late
selectSocialGroup_OffByOne(speciesKey, index) ==
    IF speciesKey \notin DOMAIN groups \/ groups[speciesKey] = <<>>
    THEN "Unknown"
    ELSE groups[speciesKey][((index + 1) % Len(groups[speciesKey])) + 1]

selectSocialGroup(speciesKey, index) ==
    IF speciesKey \notin DOMAIN groups \/ groups[speciesKey] = <<>>
    THEN "Unknown"
    ELSE groups[speciesKey][(index % Len(groups[speciesKey])) + 1]

-----------------------------------------------------------------------------
(* Record parser *)

RECURSIVE joinFrom(_, _, _)
joinFrom(parts, i, origin) ==
    IF i > Len(parts) THEN origin
    ELSE joinFrom(parts, i + 1, (IF origin # "" THEN origin \o ", " ELSE origin) \o parts[i])

\* part 1: [fail, age, sex, species]
agePart(part) ==
    LET a1 == extractInt(istringstream(part))
        a2 == extractWord(a1.st)
        a3 == extractWord(a2.st)
        a4 == extractWord(a3.st)
    IN  Bind(extractWord(a4.st), LAMBDA a5 :
            [fail |-> a5.st.fail, age |-> a1.val, sex |-> toLower(a4.val),
             species |-> toLower(a5.val)])

\* part 2: the birth season, before the "unknown" default
seasonPart(part) ==
    Bind(toLower(part), LAMBDA seasonSection :
        IF find(seasonSection, "born in") # npos
        THEN extractWord(extractWord(extractWord(istringstream(seasonSection)).st).st).val
        ELSE trim(part))

\* part 3: the color
colorPart(part) ==
    Bind(find(toLower(part), " color"), LAMBDA colorPos :
        IF colorPos # npos THEN trim(substr(part, 0, colorPos)) ELSE trim(part))

\* part 4: the weight
weightPart(part) ==
    Bind(find(part, " "), LAMBDA spacePos :
        stoi(IF spacePos # npos THEN substr(part, 0, spacePos) ELSE part))

\* parts 5 and after: the origin
originPart(parts) ==
    Bind(joinFrom(parts, 6, ""), LAMBDA origin :
        trim(IF substr(toLower(origin), 0, 5) = "from " THEN substrFrom(origin, 5) ELSE origin))

rowOf(parts, part1, season, weight) ==
    IF part1.fail THEN Throw("Unable to parse age/sex/species segment: " \o parts[2])
    ELSE IF ~weight.ok THEN weight
    ELSE Ok([arrivalDate |-> trim(parts[1]), age |-> part1.age, sex |-> part1.sex,
             species |-> part1.species,
             birthSeason |-> IF season = "" THEN "unknown" ELSE season,
             color |-> colorPart(parts[4]), weight |-> weight.val,
             origin |-> originPart(parts)])

parseArrivalRow(line) ==
    Bind(split(line, ", "), LAMBDA parts :
        IF Len(parts) < 6 THEN Throw("Malformed arrival entry: " \o line)
        ELSE Bind(agePart(parts[2]), LAMBDA part1 :
             Bind(seasonPart(parts[3]), LAMBDA season :
             Bind(weightPart(parts[5]), LAMBDA weight : rowOf(parts, part1, season, weight)))))

-----------------------------------------------------------------------------
(* The files a run can find on disk *)

NoFile == [exists |-> FALSE, lines |-> <<>>]

File(lines) == [exists |-> TRUE, lines |-> lines]

ExampleNames == File(<<"hyena: Kamari, Simba">>)

MixedNames == File(<<"Hyena : Kamari", "", "lion: Leo , ,Nala", "hyena:Shenzi">>)

BadNames == File(<<"tiger: Rajah", "bear Baloo">>)

ExampleLine == "2024-03-05, 3 years old female hyena, born in spring, tan color, 70 pounds, from Friguia Park, Tunisia"

HyenaLine == "2024-03-26, 1 year old Male Hyena, born in Summer, brown color, 55 pounds, from Kruger"

LionLine == "2024-04-02, 5 years old male lion, Winter, golden color, 300 pounds, from Zanzibar, Tanzania"

TigerLine == "  2024-01-20, 2 years old female tiger, born in monsoon, orange color, 250 pounds, from Dhaka, Bangladesh"

BearLine == "2023-11-30, 4 years old male bear, born in fall, brown color, 400 pounds, Alaska Zoo, Anchorage, Alaska "

BlankLine == "  "

ShortLine == "2024-03-05, 3 years old female hyena, born in spring"

ZebraLine == "2024-02-11, 6 years old male zebra, born in spring, striped color, 700 pounds, from Nairobi, Kenya"

UndatedLine == "soon, 2 years old male lion, born in spring, tan color, 280 pounds, from Giza Zoo, Egypt"

ArrivalLines == {ExampleLine, HyenaLine, LionLine, TigerLine, BearLine, BlankLine,
                 ShortLine, ZebraLine, UndatedLine}

SeqsUpTo(S, n) == UNION {[1..k -> S] : k \in 0..n}

\* short files over every kind of line, longer ones over a valid line of two species
RepeatLines == {ExampleLine, LionLine}

ArrivalsFiles ==
    {NoFile} \cup {File(ls) : ls \in SeqsUpTo(ArrivalLines, MaxLines)}
             \cup {File(ls) : ls \in SeqsUpTo(RepeatLines, MaxLongLines)}

\* an arrival line that differs from the example line in its species word only
SpeciesLine(species) ==
    "2024-03-05, 3 years old female " \o species
        \o ", born in spring, tan color, 70 pounds, from Friguia Park, Tunisia"

SpeciesWords == {"hyena", "HYENA", "Lion", "zebra", "Zebra", "hyenas"}

SpeciesLines == {SpeciesLine(w) : w \in SpeciesWords}

SpeciesFiles == {File(ls) : ls \in SeqsUpTo(SpeciesLines \cup {BlankLine}, MaxSpeciesLines)}

\* the rows of the lines above, parsed once: parseArrivalRowOf(l) = parseArrivalRow(l)
ArrivalRows == [l \in {trim(x) : x \in ArrivalLines \cup SpeciesLines} |-> parseArrivalRow(l)]

parseArrivalRowOf(line) ==
    IF line \in DOMAIN ArrivalRows THEN ArrivalRows[line] ELSE parseArrivalRow(line)

-----------------------------------------------------------------------------
(* main *)

\* the habitats in the order a std::map would iterate them
habitatOrder_Alphabetical == <<"Bear Habitat", "Hyena Habitat", "Lion Habitat", "Tiger Habitat">>

habitatOrder == <<"Hyena Habitat", "Lion Habitat", "Tiger Habitat", "Bear Habitat">>

Locals(ok, what, nm, ids, counts, owned, byHabitat) ==
    [ok |-> ok, what |-> what, names |-> nm, idCounters |-> ids, speciesCounts |-> counts,
     animals |-> owned, animalsByHabitat |-> byHabitat]

ClassNames == [s \in {"hyena", "lion", "tiger", "bear"} |->
                  CASE s = "hyena" -> "Hyena" [] s = "lion" -> "Lion"
                    [] s = "tiger" -> "Tiger" [] s = "bear" -> "Bear"]

\* lines 469-493: the object is created and the tracking maps updated
createAnimal(row, uid, popped, birth, group, counts1, owned, byHabitat) ==
    IF row.species \notin DOMAIN ClassNames
    THEN Locals(FALSE, "Encountered unsupported species: " \o row.species,
                popped.names, uid.counters, counts1, owned, byHabitat)
    ELSE Bind(Animal(ClassNames[row.species], popped.val, uid.val, row.age, row.sex, row.color,
                     row.weight, row.origin, row.arrivalDate, birth.val, group),
              LAMBDA created :
                 Locals(TRUE, "", popped.names, uid.counters,
                        MapPut(counts1, row.species, counts1[row.species] + 1),
                        Append(owned, created),
                        MapPut(byHabitat, habitatName(created),
                               Append(MapGet(byHabitat, habitatName(created), <<>>),
                                      Len(owned) + 1))))

\* lines 464-466 once the id is known; speciesCounts[row.species] inserts the key
enrich(row, uid, nm, counts, owned, byHabitat) ==
    Bind(popNextName(nm, row.species), LAMBDA popped :
    Bind(genBirthDay(row.age, row.birthSeason, row.arrivalDate), LAMBDA birth :
        IF ~birth.ok
        THEN Locals(FALSE, birth.what, popped.names, uid.counters, counts, owned, byHabitat)
        ELSE Bind(MapPut(counts, row.species, MapGet(counts, row.species, 0)), LAMBDA counts1 :
                 createAnimal(row, uid, popped, birth,
                              selectSocialGroup(row.species, counts1[row.species]),
                              counts1, owned, byHabitat))))

\* the name popped (line 464) before the id is generated (line 463)
arrivalStep_PopsNameFirst(line, nm, ids, counts, owned, byHabitat) ==
    Bind(parseArrivalRowOf(line), LAMBDA parsed :
        IF ~parsed.ok THEN Locals(FALSE, parsed.what, nm, ids, counts, owned, byHabitat)
        ELSE Bind(popNextName(nm, parsed.val.species), LAMBDA popped :
             Bind(genUniqueId(parsed.val.species, ids), LAMBDA uid :
                 IF ~uid.ok
                 THEN Locals(FALSE, uid.what, popped.names, ids, counts, owned, byHabitat)
                 ELSE enrich(parsed.val, uid, nm, counts, owned, byHabitat))))

\* the body of the while loop of main for one non-blank line, lines 462-493:
\* the locals after the body, or after the statement that threw
arrivalStep(line, nm, ids, counts, owned, byHabitat) ==
    Bind(parseArrivalRowOf(line), LAMBDA parsed :
        IF ~parsed.ok THEN Locals(FALSE, parsed.what, nm, ids, counts, owned, byHabitat)
        ELSE Bind(genUniqueId(parsed.val.species, ids), LAMBDA uid :
                 IF ~uid.ok THEN Locals(FALSE, uid.what, nm, ids, counts, owned, byHabitat)
                 ELSE enrich(parsed.val, uid, nm, counts, owned, byHabitat)))

\* nothing written for a habitat without occupants
habitatLines_SkipsEmpty(habitat, byHabitat, owned) ==
    LET occupants == MapGet(byHabitat, habitat, <<>>)
    IN  IF occupants = <<>> THEN <<>>
        ELSE <<habitat \o " (" \o intToString(Len(occupants)) \o ")">>
             \o [i \in 1..Len(occupants) |->
                   "  - " \o reportLine(owned[occupants[i]]) \o " | " \o socialGroupLabel(owned[occupants[i]])]
             \o <<"">>

\* the lines one iteration of the rendering loop writes for a habitat
habitatLines(habitat, byHabitat, owned) ==
    LET occupants == MapGet(byHabitat, habitat, <<>>)
    IN  <<habitat \o " (" \o intToString(Len(occupants)) \o ")">>
        \o [i \in 1..Len(occupants) |->
              "  - " \o reportLine(owned[occupants[i]]) \o " | " \o socialGroupLabel(owned[occupants[i]])]
        \o <<"">>

NoCall == <<>>

NoResult == [ok |-> FALSE, val |-> "", what |-> "not called"]

UnitIdle == /\ uCall = NoCall /\ uRet = NoResult /\ uHist = EmptyMap

Init ==
    /\ pc = "Idle"
    /\ \/ namesFile \in {ExampleNames, MixedNames} /\ arrivalsFile \in ArrivalsFiles
       \/ namesFile \in {NoFile, BadNames} /\ arrivalsFile \in {NoFile, File(<<ExampleLine>>)}
    /\ names = EmptyMap
    /\ linePos = 0
    /\ animals = <<>>
    /\ animalsByHabitat = EmptyMap
    /\ idCounters = EmptyMap
    /\ speciesCounts = EmptyMap
    /\ openFiles = {}
    /\ reportOpened = FALSE
    /\ report = <<>>
    /\ renderPos = 0
    /\ exitCode = -1
    /\ errWhat = ""
    /\ UnitIdle

\* the catch block falling through to the return 0 of main
Catch_ReturnsZero(what) ==
    /\ pc' = "Failed"
    /\ errWhat' = what
    /\ exitCode' = 0
    /\ openFiles' = {}

\* the catch block of main: the stack is unwound, the message printed, 1 returned
Catch(what) ==
    /\ pc' = "Failed"
    /\ errWhat' = what
    /\ exitCode' = 1
    /\ openFiles' = {}

\* main enters the try block and calls loadAnimalNames, which opens the file
BeginRun ==
    /\ pc = "Idle"
    /\ pc' = "LoadingNames"
    /\ openFiles' = IF namesFile.exists THEN {"names"} ELSE {}
    /\ UNCHANGED <<namesFile, arrivalsFile, names, linePos, animals, animalsByHabitat,
                   idCounters, speciesCounts, reportOpened, report, renderPos, exitCode,
                   errWhat, uCall, uRet, uHist>>

\* the stream of loadAnimalNames not destroyed when the function returns
LoadNames_NamesLeftOpen ==
    /\ pc = "LoadingNames"
    /\ \E loaded \in {loadAnimalNames(namesFile)} :
           IF ~loaded.ok
           THEN Catch(loaded.what) /\ UNCHANGED names
           ELSE IF ~arrivalsFile.exists
           THEN Catch("Unable to open arrivals file: data/arrivingAnimals.txt")
                /\ names' = loaded.val
           ELSE /\ names' = loaded.val
                /\ pc' = "StreamingArrivals"
                /\ openFiles' = openFiles \cup {"arrivals"}
                /\ UNCHANGED <<exitCode, errWhat>>
    /\ UNCHANGED <<namesFile, arrivalsFile, linePos, animals, animalsByHabitat, idCounters,
                   speciesCounts, reportOpened, report, renderPos, uCall, uRet, uHist>>

\* loadAnimalNames runs to its return or its throw; on return main opens arrivalFile
LoadNames ==
    /\ pc = "LoadingNames"
    /\ \E loaded \in {loadAnimalNames(namesFile)} :
           IF ~loaded.ok
           THEN Catch(loaded.what) /\ UNCHANGED names
           ELSE IF ~arrivalsFile.exists
           THEN Catch("Unable to open arrivals file: data/arrivingAnimals.txt")
                /\ names' = loaded.val
           ELSE /\ names' = loaded.val
                /\ pc' = "StreamingArrivals"
                /\ openFiles' = {"arrivals"}
                /\ UNCHANGED <<exitCode, errWhat>>
    /\ UNCHANGED <<namesFile, arrivalsFile, linePos, animals, animalsByHabitat, idCounters,
                   speciesCounts, reportOpened, report, renderPos, uCall, uRet, uHist>>

\* getline reads a line that is empty once trimmed: continue
SkipBlankLine ==
    /\ pc = "StreamingArrivals"
    /\ linePos < Len(arrivalsFile.lines)
    /\ trim(arrivalsFile.lines[linePos + 1]) = ""
    /\ linePos' = linePos + 1
    /\ UNCHANGED <<pc, namesFile, arrivalsFile, names, animals, animalsByHabitat, idCounters,
                   speciesCounts, openFiles, reportOpened, report, renderPos, exitCode,
                   errWhat, uCall, uRet, uHist>>

\* getline reads a non-blank line and the loop body completes
ArrivalLine ==
    /\ pc = "StreamingArrivals"
    /\ linePos < Len(arrivalsFile.lines)
    /\ trim(arrivalsFile.lines[linePos + 1]) # ""
    /\ \E r \in {arrivalStep(trim(arrivalsFile.lines[linePos + 1]), names, idCounters,
                            speciesCounts, animals, animalsByHabitat)} :
           /\ r.ok
           /\ names' = r.names
           /\ idCounters' = r.idCounters
           /\ speciesCounts' = r.speciesCounts
           /\ animals' = r.animals
           /\ animalsByHabitat' = r.animalsByHabitat
    /\ linePos' = linePos + 1
    /\ UNCHANGED <<pc, namesFile, arrivalsFile, openFiles, reportOpened, report, renderPos,
                   exitCode, errWhat, uCall, uRet, uHist>>

\* the exception caught inside the loop and the line skipped
ArrivalLineThrows_Skips ==
    /\ pc = "StreamingArrivals"
    /\ linePos < Len(arrivalsFile.lines)
    /\ trim(arrivalsFile.lines[linePos + 1]) # ""
    /\ \E r \in {arrivalStep(trim(arrivalsFile.lines[linePos + 1]), names, idCounters,
                            speciesCounts, animals, animalsByHabitat)} :
           /\ ~r.ok
           /\ names' = r.names
           /\ idCounters' = r.idCounters
           /\ speciesCounts' = r.speciesCounts
           /\ animals' = r.animals
           /\ animalsByHabitat' = r.animalsByHabitat
    /\ linePos' = linePos + 1
    /\ UNCHANGED <<pc, errWhat, exitCode, openFiles, namesFile, arrivalsFile, reportOpened,
                   report, renderPos, uCall, uRet, uHist>>

\* getline reads a non-blank line and a statement of the loop body throws
ArrivalLineThrows ==
    /\ pc = "StreamingArrivals"
    /\ linePos < Len(arrivalsFile.lines)
    /\ trim(arrivalsFile.lines[linePos + 1]) # ""
    /\ \E r \in {arrivalStep(trim(arrivalsFile.lines[linePos + 1]), names, idCounters,
                            speciesCounts, animals, animalsByHabitat)} :
           /\ ~r.ok
           /\ names' = r.names
           /\ idCounters' = r.idCounters
           /\ speciesCounts' = r.speciesCounts
           /\ animals' = r.animals
           /\ animalsByHabitat' = r.animalsByHabitat
           /\ Catch(r.what)
    /\ linePos' = linePos + 1
    /\ UNCHANGED <<namesFile, arrivalsFile, reportOpened, report, renderPos, uCall, uRet, uHist>>

\* getline hits the end of the file; main opens the report, which may fail
EndOfArrivals ==
    /\ pc = "StreamingArrivals"
    /\ linePos = Len(arrivalsFile.lines)
    /\ \E writable \in BOOLEAN :
          IF writable
          THEN /\ pc' = "Rendering"
               /\ openFiles' = openFiles \cup {"report"}
               /\ reportOpened' = TRUE
               /\ UNCHANGED <<exitCode, errWhat>>
          ELSE /\ Catch("Unable to open report for writing: zooPopulation.txt")
               /\ UNCHANGED reportOpened
    /\ UNCHANGED <<namesFile, arrivalsFile, names, linePos, animals, animalsByHabitat,
                   idCounters, speciesCounts, report, renderPos, uCall, uRet, uHist>>

\* one iteration of the loop over habitatOrder; operator[] inserts a missing key
RenderHabitat ==
    /\ pc = "Rendering"
    /\ renderPos < Len(habitatOrder)
    /\ LET habitat == habitatOrder[renderPos + 1]
       IN  /\ report' = report \o habitatLines(habitat, animalsByHabitat, animals)
           /\ animalsByHabitat' = MapPut(animalsByHabitat, habitat,
                                         MapGet(animalsByHabitat, habitat, <<>>))
    /\ renderPos' = renderPos + 1
    /\ UNCHANGED <<pc, namesFile, arrivalsFile, names, linePos, animals, idCounters,
                   speciesCounts, openFiles, reportOpened, exitCode, errWhat, uCall, uRet, uHist>>

\* the loop is over: the try block ends, the streams are destroyed, main returns 0
Finish ==
    /\ pc = "Rendering"
    /\ renderPos = Len(habitatOrder)
    /\ pc' = "Done"
    /\ exitCode' = 0
    /\ openFiles' = {}
    /\ UNCHANGED <<namesFile, arrivalsFile, names, linePos, animals, animalsByHabitat,
                   idCounters, speciesCounts, reportOpened, report, renderPos, errWhat,
                   uCall, uRet, uHist>>

Next ==
    \/ BeginRun
    \/ LoadNames
    \/ SkipBlankLine
    \/ ArrivalLine
    \/ ArrivalLineThrows
    \/ EndOfArrivals
    \/ RenderHabitat
    \/ Finish

Spec == Init /\ [][Next]_vars

\* the runs on the shorter arrival files
InitFair == Init /\ Len(arrivalsFile.lines) <= MaxFairLines

\* main is one sequential thread: a step that can be taken is taken
FairSpec == InitFair /\ [][Next]_vars /\ WF_vars(Next)

-----------------------------------------------------------------------------
(* Unit runs: a helper called directly, main not running *)

MainIdle ==
    /\ pc = "Idle"
    /\ namesFile = NoFile
    /\ arrivalsFile = NoFile
    /\ names = EmptyMap
    /\ linePos = 0
    /\ animals = <<>>
    /\ animalsByHabitat = EmptyMap
    /\ speciesCounts = EmptyMap
    /\ openFiles = {}
    /\ reportOpened = FALSE
    /\ report = <<>>
    /\ renderPos = 0
    /\ exitCode = -1
    /\ errWhat = ""

mainVars == <<pc, namesFile, arrivalsFile, names, linePos, animals, animalsByHabitat,
              speciesCounts, openFiles, reportOpened, report, renderPos, exitCode, errWhat>>

\* species arguments for genUniqueId, each with the prefix the spec gives it
\* ("" for a species outside the four)
IdSpecies == {<<"hyena", "Hy">>, <<"HYENA", "Hy">>, <<"Lion", "Li">>, <<"tiger", "Ti">>,
              <<"bEAR", "Be">>, <<"zebra", "">>, <<"", "">>}

RECURSIVE SumOver(_, _)
SumOver(f, S) ==
    IF S = {} THEN 0 ELSE LET x == CHOOSE y \in S : TRUE IN f[x] + SumOver(f, S \ {x})

InitGenId == MainIdle /\ idCounters = EmptyMap /\ UnitIdle

\* genUniqueId(species, counters) on the one counters map
CallGenUniqueId ==
    /\ SumOver(idCounters, DOMAIN idCounters) < MaxIdCalls
    /\ \E sp \in IdSpecies :
          LET r == genUniqueId(sp[1], idCounters)
          IN  /\ idCounters' = r.counters
              /\ uCall' = sp
              /\ uRet' = [ok |-> r.ok, val |-> r.val, what |-> r.what]
              /\ uHist' = IF r.ok
                          THEN MapPut(uHist, sp[2], Append(MapGet(uHist, sp[2], <<>>), r.val))
                          ELSE uHist
    /\ UNCHANGED mainVars

NextGenId == CallGenUniqueId

SpecGenId == InitGenId /\ [][NextGenId]_vars

BirthSeasons == {"spring", "Spring", "SUMMER", "summer", "fall", "Fall", "autumn", "AuTumn",
                 "winter", "Winter", "martian-season", "unknown", "", " winter", "springs"}

BirthDates == {"2024-04-02", "2024-03-05", "1999-12-31", "2024-13-99", "0003-01-01", "12024-02-29"}

InitBirth ==
    /\ MainIdle /\ idCounters = EmptyMap /\ uHist = EmptyMap
    /\ uCall \in (0..MaxAge) \X BirthSeasons \X BirthDates
    /\ uRet = NoResult

\* genBirthDay(age, season, arrivalDate)
CallGenBirthDay ==
    /\ uRet = NoResult
    /\ uRet' = genBirthDay(uCall[1], uCall[2], uCall[3])
    /\ UNCHANGED <<mainVars, idCounters, uCall, uHist>>

NextBirth == CallGenBirthDay

SpecBirth == InitBirth /\ [][NextBirth]_vars

\* date strings for parseIsoDate: every year, month and day text below joined
\* by dashes, and strings that are not of that form
IsoYears == {"0000", "0001", "0999", "1999", "2024", "9999"}

IsoMonths == {"00", "01", "03", "09", "12", "13", "99"}

IsoDays == {"00", "01", "05", "31", "99"}

IsoOthers == {"2024-3-5", "2024/03/05", " 2024-03-05", "12024-02-29", "", "2024-03",
              "-024-03-05", "2024-03-05x", "2024 - 03 - 05", "+2024-03-05"}

IsoStrings ==
    {y \o "-" \o m \o "-" \o d : y \in IsoYears, m \in IsoMonths, d \in IsoDays} \cup IsoOthers

InitIso ==
    /\ MainIdle /\ idCounters = EmptyMap
    /\ uCall \in IsoStrings
    /\ uHist = NoResult
    /\ uRet = NoResult

\* parseIsoDate(value): uHist holds the Date returned or the exception
CallParseIsoDate ==
    /\ uHist = NoResult
    /\ uHist' = parseIsoDate(uCall)
    /\ UNCHANGED <<mainVars, idCounters, uCall, uRet>>

\* formatIsoDate(date) on the Date parseIsoDate returned
CallFormatIsoDate ==
    /\ uHist # NoResult
    /\ uHist.ok
    /\ uRet = NoResult
    /\ uRet' = Ok(formatIsoDate(uHist.val))
    /\ UNCHANGED <<mainVars, idCounters, uCall, uHist>>

NextIso == CallParseIsoDate \/ CallFormatIsoDate

SpecIso == InitIso /\ [][NextIso]_vars

\* arguments for split: every string of at most MaxSplitLen characters over a
\* letter, the comma and the space, and longer examples; delimiters of one and
\* two characters
SplitChars == {"a", ",", " "}

RECURSIVE StringsOfLen(_, _)
StringsOfLen(chars, n) ==
    IF n = 0 THEN {""} ELSE {c \o t : c \in chars, t \in StringsOfLen(chars, n - 1)}

SplitExamples == {"a, b, c", "Kamari, Simba, ", ", , a,b", "aaaaa", "a,,,,a,"}

SplitValues == UNION {StringsOfLen(SplitChars, n) : n \in 0..MaxSplitLen} \cup SplitExamples

SplitDelimiters == {", ", ",", "a", ",,", "aa"}

InitSplit ==
    /\ MainIdle /\ idCounters = EmptyMap /\ uHist = EmptyMap
    /\ uCall \in SplitValues \X SplitDelimiters
    /\ uRet = NoResult

\* split(value, delimiter)
CallSplit ==
    /\ uRet = NoResult
    /\ uRet' = Ok(split(uCall[1], uCall[2]))
    /\ UNCHANGED <<mainVars, idCounters, uCall, uHist>>

NextSplit == CallSplit

SpecSplit == InitSplit /\ [][NextSplit]_vars

\* arguments for speciesPrefix, each with the prefix the spec gives it ("" for
\* an input outside the four species)
PrefixSpecies == {<<"hyena", "Hy">>, <<"HYENA", "Hy">>, <<"Hyena", "Hy">>, <<"lion", "Li">>,
                  <<"LiOn", "Li">>, <<"tiger", "Ti">>, <<"TIGER", "Ti">>, <<"bear", "Be">>,
                  <<"bEAR", "Be">>, <<"zebra", "">>, <<"Zebra", "">>, <<"hyenas", "">>,
                  <<"", "">>, <<" lion", "">>, <<"bear ", "">>, <<"li on", "">>,
                  <<"Hy", "">>, <<"tigre", "">>}

\* either main runs on arrival lines of the species words, or speciesPrefix is
\* called directly
InitSpecies ==
    /\ pc = "Idle"
    /\ \/ /\ uCall = NoCall
          /\ namesFile \in {ExampleNames, MixedNames}
          /\ arrivalsFile \in SpeciesFiles
       \/ /\ uCall \in PrefixSpecies
          /\ namesFile = NoFile
          /\ arrivalsFile = NoFile
    /\ names = EmptyMap
    /\ linePos = 0
    /\ animals = <<>>
    /\ animalsByHabitat = EmptyMap
    /\ idCounters = EmptyMap
    /\ speciesCounts = EmptyMap
    /\ openFiles = {}
    /\ reportOpened = FALSE
    /\ report = <<>>
    /\ renderPos = 0
    /\ exitCode = -1
    /\ errWhat = ""
    /\ uRet = NoResult
    /\ uHist = EmptyMap

\* speciesPrefix(species)
CallSpeciesPrefix ==
    /\ uCall # NoCall
    /\ uRet = NoResult
    /\ uRet' = speciesPrefix(uCall[1])
    /\ UNCHANGED <<mainVars, idCounters, uCall, uHist>>

NextSpecies == Next \/ CallSpeciesPrefix

SpecSpecies == InitSpecies /\ [][NextSpecies]_vars

\* arrival lines for parseArrivalRow: segments 1, 2 and 4 drawn from the sets
\* below, the other segments those of the example line
RowLine(ageSegment, seasonSegment, weightSegment) ==
    "2024-03-05, " \o ageSegment \o ", " \o seasonSegment \o ", tan color, " \o weightSegment
        \o ", from Friguia Park, Tunisia"

AgeSegments == {"3 years old female hyena", "0 years old male lion",
                "-3 years old female hyena", "three years old female hyena"}

SeasonSegments == {"born in spring", "Born In Summer", "born in", "was born in spring",
                   "cub born in Fall", "Winter", " early spring ", "", "born  in spring",
                   "reborn in autumn"}

WeightSegments == {"70 pounds", "0 pounds", "-70 pounds", "heavy"}

InitRow ==
    /\ MainIdle /\ idCounters = EmptyMap /\ uHist = EmptyMap
    /\ uCall \in AgeSegments \X SeasonSegments \X WeightSegments
    /\ uRet = NoResult

\* parseArrivalRow(line)
CallParseArrivalRow ==
    /\ uRet = NoResult
    /\ uRet' = parseArrivalRow(RowLine(uCall[1], uCall[2], uCall[3]))
    /\ UNCHANGED <<mainVars, idCounters, uCall, uHist>>

NextRow == CallParseArrivalRow

SpecRow == InitRow /\ [][NextRow]_vars

-----------------------------------------------------------------------------
(* What the spec says of the inputs above, written out by hand *)

Prefixes == {"Hy", "Li", "Ti", "Be"}

PaddedSeqNo(n) == IF n < 10 THEN "0" \o natToString(n) ELSE natToString(n)

\* C1: the n-th id genUniqueId returns for a prefix is the prefix followed by n
\* padded to two digits, whatever other calls are interleaved; the calls for
\* the species of one prefix, in any letter case, share the sequence
C1_GapFreeIds ==
    /\ DOMAIN uHist \subseteq Prefixes
    /\ \A p \in DOMAIN uHist :
          \A n \in 1..Len(uHist[p]) : uHist[p][n] = p \o PaddedSeqNo(n)
    /\ (uCall # NoCall /\ uCall[2] # "") =>
          /\ uRet.ok
          /\ uRet.val = uHist[uCall[2]][Len(uHist[uCall[2]])]
    /\ (uCall # NoCall /\ uCall[2] = "") => ~uRet.ok

C1_Witness ==
    /\ "Hy" \in DOMAIN uHist /\ "Li" \in DOMAIN uHist
    /\ Len(uHist["Hy"]) = 10
    /\ uHist["Hy"][10] = "Hy10"
    /\ Len(uHist["Li"]) = 1
    /\ uCall = <<"HYENA", "Hy">>

\* the arrival lines by what the spec makes of them
HyenaLines == {ExampleLine, HyenaLine}

LionLines == {LionLine}

TigerLines == {TigerLine}

BearLines == {BearLine}

FailingLines == {ShortLine, ZebraLine, UndatedLine}

Species == <<"hyena", "lion", "tiger", "bear">>

LinesOf(sp) ==
    CASE sp = "hyena" -> HyenaLines
      [] sp = "lion"  -> LionLines
      [] sp = "tiger" -> TigerLines
      [] sp = "bear"  -> BearLines

ClassOf(sp) ==
    CASE sp = "hyena" -> "Hyena" [] sp = "lion" -> "Lion" [] sp = "tiger" -> "Tiger" [] sp = "bear" -> "Bear"

PrefixOf(sp) ==
    CASE sp = "hyena" -> "Hy" [] sp = "lion" -> "Li" [] sp = "tiger" -> "Ti" [] sp = "bear" -> "Be"

HabitatOf(sp) ==
    CASE sp = "hyena" -> "Hyena Habitat" [] sp = "lion" -> "Lion Habitat"
      [] sp = "tiger" -> "Tiger Habitat" [] sp = "bear" -> "Bear Habitat"

RoleWordOf(sp) ==
    CASE sp = "hyena" -> "Clan" [] sp = "lion" -> "Pride" [] sp = "tiger" -> "Ambush" [] sp = "bear" -> "Sleuth"

GroupOptionsOf(sp) ==
    CASE sp = "hyena" -> <<"Motto Clan", "Serengeti Clan", "Savannah Clan", "Spotted Clan">>
      [] sp = "lion"  -> <<"Golden Pride", "Savanna Pride", "Sunset Pride", "River Pride">>
      [] sp = "tiger" -> <<"Ember Ambush", "Jungle Ambush", "River Ambush", "Shadow Ambush">>
      [] sp = "bear"  -> <<"Highland Sleuth", "Forest Sleuth", "Mountain Sleuth", "Valley Sleuth">>

\* the name pool the names file gives a species
PoolOf(file, sp) ==
    IF file = ExampleNames /\ sp = "hyena" THEN <<"Kamari", "Simba">>
    ELSE IF file = MixedNames /\ sp = "hyena" THEN <<"Shenzi">>
    ELSE IF file = MixedNames /\ sp = "lion" THEN <<"Leo", "Nala">>
    ELSE <<>>

\* the report text of an arrival line between the name and the group label
BodyOf(line) ==
    CASE line = ExampleLine ->
           "; birth date 2021-03-15; tan color; female; 70 pounds; from Friguia Park, Tunisia; arrived 2024-03-05"
      [] line = HyenaLine ->
           "; birth date 2023-06-15; brown color; male; 55 pounds; from Kruger; arrived 2024-03-26"
      [] line = LionLine ->
           "; birth date 2019-12-15; golden color; male; 300 pounds; from Zanzibar, Tanzania; arrived 2024-04-02"
      [] line = TigerLine ->
           "; birth date 2022-01-20; orange color; female; 250 pounds; from Dhaka, Bangladesh; arrived 2024-01-20"
      [] line = BearLine ->
           "; birth date 2019-09-15; brown color; male; 400 pounds; from Alaska Zoo, Anchorage, Alaska; arrived 2023-11-30"

\* the arrival lines read so far that are not blank, and those of one species
LinesRead == SelectSeq(SubSeq(arrivalsFile.lines, 1, linePos), LAMBDA l : l # BlankLine)

LinesReadOf(sp) == SelectSeq(LinesRead, LAMBDA l : l \in LinesOf(sp))

AnimalsOf(sp) == SelectSeq(animals, LAMBDA a : a.species = ClassOf(sp))

\* the entity line the spec gives the k-th arrival of a species
EntityLine(file, sp, k, line) ==
    PrefixOf(sp) \o PaddedSeqNo(k) \o "; "
        \o (IF k <= Len(PoolOf(file, sp)) THEN PoolOf(file, sp)[k] ELSE "Unnamed " \o sp)
        \o BodyOf(line) \o " | " \o RoleWordOf(sp) \o ": " \o GroupOptionsOf(sp)[((k - 1) % 4) + 1]

StartsWith(s, p) == Len(s) >= Len(p) /\ SubSeq(s, 1, Len(p)) = p

\* the positions of the report lines that are the header of a habitat
HeaderPositions(habitat) == {i \in 1..Len(report) : StartsWith(report[i], habitat \o " (")}

RECURSIVE SectionEnd(_)
SectionEnd(i) == IF i > Len(report) \/ report[i] = "" THEN i ELSE SectionEnd(i + 1)

\* the lines under the (first) header of a habitat, up to the blank line
SectionOf(habitat) ==
    IF HeaderPositions(habitat) = {} THEN <<>>
    ELSE LET h == CHOOSE i \in HeaderPositions(habitat) : \A j \in HeaderPositions(habitat) : i <= j
         IN  SubSeq(report, h + 1, SectionEnd(h + 1) - 1)

SeqNoOf(id) == scanInt(id, 2)

\* C2: the unique ids of the collection are pairwise different, and each is the
\* two-letter prefix of the entity's species followed by a number that is >= 1
C2_UniqueIds ==
    /\ \A i, j \in 1..Len(animals) : i # j => animals[i].uniqueId # animals[j].uniqueId
    /\ \A i \in 1..Len(animals) :
          \E k \in 1..4 :
             /\ animals[i].species = ClassOf(Species[k])
             /\ StartsWith(animals[i].uniqueId, PrefixOf(Species[k]))
             /\ SeqNoOf(animals[i].uniqueId).found
             /\ SeqNoOf(animals[i].uniqueId).end = Len(animals[i].uniqueId)
             /\ SeqNoOf(animals[i].uniqueId).val >= 1

C2_Witness ==
    /\ pc = "Done"
    /\ Len(animals) = 3
    /\ animals[1].species = "Hyena" /\ animals[2].species = "Lion" /\ animals[3].species = "Hyena"
    /\ animals[3].uniqueId = "Hy02"

\* the position of the first line of the arrivals file that fails, 0 if none does
FirstFailing ==
    IF \E i \in 1..Len(arrivalsFile.lines) : arrivalsFile.lines[i] \in FailingLines
    THEN CHOOSE i \in 1..Len(arrivalsFile.lines) :
            /\ arrivalsFile.lines[i] \in FailingLines
            /\ \A j \in 1..(i - 1) : arrivalsFile.lines[j] \notin FailingLines
    ELSE 0

\* C3: once a failing arrival line has been read the run has failed at that
\* line: no later line is read, no entity is added for it, and the report file
\* is neither opened nor written, however many valid lines came before
C3_AbortAtFailingLine ==
    (FirstFailing > 0 /\ linePos >= FirstFailing) =>
        /\ pc = "Failed"
        /\ exitCode = 1
        /\ linePos = FirstFailing
        /\ Len(animals) = Len(SelectSeq(SubSeq(arrivalsFile.lines, 1, FirstFailing - 1),
                                        LAMBDA l : l # BlankLine))
        /\ ~reportOpened
        /\ "report" \notin openFiles
        /\ report = <<>>

C3_Witness ==
    /\ pc = "Failed"
    /\ Len(arrivalsFile.lines) = 3
    /\ arrivalsFile.lines[2] = ShortLine
    /\ arrivalsFile.lines[3] = LionLine
    /\ linePos = 2
    /\ Len(animals) = 1
    /\ errWhat = "Malformed arrival entry: " \o ShortLine

\* C4: the k-th animal of a species has the k-th name of the species' loaded
\* pool while k is within the pool and "Unnamed {species}" beyond it (from the
\* first animal on when the species has no pool); while the run has not failed
\* the names left are the pool without the names given out
C4_NamesFromFront ==
    \A s \in 1..4 :
       LET sp   == Species[s]
           pool == PoolOf(namesFile, sp)
           mine == AnimalsOf(sp)
       IN  /\ \A k \in 1..Len(mine) :
                 mine[k].name = IF k <= Len(pool) THEN pool[k] ELSE "Unnamed " \o sp
           /\ (pc \in {"StreamingArrivals", "Rendering", "Done"} /\ sp \in DOMAIN names) =>
                 names[sp] = SubSeq(pool, Len(mine) + 1, Len(pool))

C4_Witness ==
    /\ namesFile = ExampleNames
    /\ Len(animals) = 4
    /\ animals[1].name = "Kamari"
    /\ animals[2].name = "Unnamed lion"
    /\ animals[3].name = "Simba"
    /\ animals[4].name = "Unnamed hyena"

ExampleEntityLine ==
    "Hy01; Kamari; birth date 2021-03-15; tan color; female; 70 pounds; from Friguia Park, Tunisia; arrived 2024-03-05 | Clan: Motto Clan"

\* the entity lines (without their "  - " indent) of a sequence of report lines
EntityLinesIn(lines) ==
    [i \in 1..Len(lines) |-> IF StartsWith(lines[i], "  - ") THEN substrFrom(lines[i], 4) ELSE ""]

Occurrences(lines, line) == Cardinality({i \in 1..Len(lines) : lines[i] = line})

\* C5: in the finished report, for each species with a non-empty name pool, the
\* first arrival line of the species gives exactly one entity line
\* "{Prefix}01; {first pool name}; birth date ...; arrived {date} | {RoleWord}:
\* {first group option}", and it stands under the species' habitat; for the
\* example names and the example line that is the line quoted in the spec
C5_FirstEntityLine ==
    pc = "Done" =>
        /\ \A s \in 1..4 :
              LET sp == Species[s]
              IN  (PoolOf(namesFile, sp) # <<>> /\ LinesReadOf(sp) # <<>>) =>
                     LET expected == EntityLine(namesFile, sp, 1, LinesReadOf(sp)[1])
                     IN  /\ Occurrences(EntityLinesIn(SectionOf(HabitatOf(sp))), expected) = 1
                         /\ Occurrences(EntityLinesIn(report), expected) = 1
        /\ (namesFile = ExampleNames /\ LinesReadOf("hyena") # <<>>
              /\ LinesReadOf("hyena")[1] = ExampleLine) =>
              Occurrences(EntityLinesIn(SectionOf("Hyena Habitat")), ExampleEntityLine) = 1

C5_Witness ==
    /\ pc = "Done"
    /\ namesFile = ExampleNames
    /\ arrivalsFile.lines = <<LionLine, ExampleLine, HyenaLine>>
    /\ report[1] = "Hyena Habitat (2)"
    /\ report[2] = "  - " \o ExampleEntityLine

PhaseRank ==
    [p \in {"Idle", "LoadingNames", "StreamingArrivals", "Rendering", "Done", "Failed"} |->
        CASE p = "Idle" -> 0 [] p = "LoadingNames" -> 1 [] p = "StreamingArrivals" -> 2
          [] p = "Rendering" -> 3 [] p = "Done" -> 4 [] p = "Failed" -> 5]

Terminal == {"Done", "Failed"}

\* C6: a step never leaves a terminal phase; a step that changes the phase moves
\* to the next phase of Idle, LoadingNames, StreamingArrivals, Rendering, Done or,
\* when an error is thrown, to Failed; Done goes with exit code 0 and Failed with
\* exit code 1, and no exit code is set before; every run reaches a terminal phase
C6_PhaseOrder ==
    /\ [][/\ pc \notin Terminal
          /\ pc' # pc => (pc' = "Failed" \/ PhaseRank[pc'] = PhaseRank[pc] + 1)
          /\ errWhat' # errWhat => pc' = "Failed"
          /\ pc' = "Failed" => errWhat' # errWhat]_vars
    /\ [](/\ pc = "Done" => exitCode = 0
          /\ pc = "Failed" => exitCode = 1
          /\ pc \notin Terminal => exitCode = -1)
    /\ <>(pc \in Terminal)

C6_Witness ==
    /\ pc = "Failed"
    /\ exitCode = 1
    /\ errWhat = "Unable to open report for writing: zooPopulation.txt"
    /\ Len(animals) = 2
    /\ openFiles = {}

\* the lines of the report that are neither blank nor indented
Headers == SelectSeq(report, LAMBDA l : l # "" /\ ~StartsWith(l, " "))

\* C7: the finished report has its habitat headers in the order Hyena, Lion,
\* Tiger, Bear whatever the order of the arrival lines, and under each habitat
\* the entity lines of the species' arrival lines in the order they were read
C7_ReportOrder ==
    pc = "Done" =>
        /\ Len(Headers) = 4
        /\ \A s \in 1..4 : StartsWith(Headers[s], HabitatOf(Species[s]) \o " (")
        /\ \A s \in 1..4 :
              LET section == SectionOf(HabitatOf(Species[s]))
                  arrived == LinesReadOf(Species[s])
              IN  /\ Len(section) = Len(arrived)
                  /\ \A k \in 1..Len(section) :
                        /\ StartsWith(section[k], "  - " \o PrefixOf(Species[s]) \o PaddedSeqNo(k) \o "; ")
                        /\ find(section[k], BodyOf(arrived[k]) \o " | ") # npos

C7_Witness ==
    /\ pc = "Done"
    /\ arrivalsFile.lines = <<BearLine, HyenaLine, ExampleLine>>
    /\ report[1] = "Hyena Habitat (2)"
    /\ find(report[2], "from Kruger;") # npos
    /\ find(report[3], "from Friguia Park, Tunisia;") # npos
    /\ report[9] = "Bear Habitat (1)"

\* C8: the finished report has exactly one header per habitat, "{habitat} (n)"
\* with n the number of arrival lines of the species read and the number of
\* entity lines under it, also when n is 0; the four counts add up to the
\* number of non-blank arrival lines
C8_HeaderCounts ==
    pc = "Done" =>
        /\ \A s \in 1..4 :
              LET habitat == HabitatOf(Species[s])
                  n == Len(LinesReadOf(Species[s]))
              IN  /\ Cardinality(HeaderPositions(habitat)) = 1
                  /\ \A h \in HeaderPositions(habitat) :
                        report[h] = habitat \o " (" \o natToString(n) \o ")"
                  /\ Len(SectionOf(habitat)) = n
                  /\ \A k \in 1..n : StartsWith(SectionOf(habitat)[k], "  - ")
                  /\ Len(AnimalsOf(Species[s])) = n
        /\ Len(LinesReadOf("hyena")) + Len(LinesReadOf("lion")) + Len(LinesReadOf("tiger"))
              + Len(LinesReadOf("bear")) = Len(LinesRead)
        /\ linePos = Len(arrivalsFile.lines)
        /\ Len(report) = 8 + Len(LinesRead)

C8_Witness ==
    /\ pc = "Done"
    /\ arrivalsFile.lines = <<ExampleLine, BlankLine, ExampleLine>>
    /\ report[1] = "Hyena Habitat (2)"
    /\ report[5] = "Lion Habitat (0)"
    /\ report[6] = ""
    /\ report[7] = "Tiger Habitat (0)"

\* C9: the animal whose id has sequence number n has the group
\* options[(n - 1) mod 4] of its species, whatever arrivals of other species
\* come between; speciesCounts holds per species the number of entities created;
\* selectSocialGroup answers "Unknown" for a key that is not in its table
C9_RoundRobinGroups ==
    /\ \A i \in 1..Len(animals) :
          \E s \in 1..4 :
             /\ animals[i].species = ClassOf(Species[s])
             /\ animals[i].socialGroup =
                   GroupOptionsOf(Species[s])[((SeqNoOf(animals[i].uniqueId).val - 1) % 4) + 1]
             /\ SeqNoOf(animals[i].uniqueId).val =
                   Len(SelectSeq(SubSeq(animals, 1, i), LAMBDA a : a.species = animals[i].species))
    /\ \A sp \in DOMAIN speciesCounts :
          \E s \in 1..4 : sp = Species[s] /\ speciesCounts[sp] = Len(AnimalsOf(sp))
    /\ \A n \in 0..MaxLongLines :
          /\ selectSocialGroup("zebra", n) = "Unknown"
          /\ selectSocialGroup("Hyena", n) = "Unknown"
          /\ selectSocialGroup("", n) = "Unknown"

C9_Witness ==
    /\ Len(animals) = 6
    /\ animals[2].species = "Lion"
    /\ animals[2].socialGroup = "Golden Pride"
    /\ animals[5].uniqueId = "Hy04"
    /\ animals[5].socialGroup = "Spotted Clan"
    /\ animals[6].uniqueId = "Hy05"
    /\ animals[6].socialGroup = "Motto Clan"

\* the month and day the spec gives a season string, "" for the fallback
SeasonMonthDay(season) ==
    CASE season \in {"spring", "Spring"} -> "03-15"
      [] season \in {"SUMMER", "summer"} -> "06-15"
      [] season \in {"fall", "Fall", "autumn", "AuTumn"} -> "09-15"
      [] season \in {"winter", "Winter"} -> "12-15"
      [] OTHER -> ""

\* the year and the month-day text of the arrival dates
ArrivalYear(date) ==
    CASE date = "2024-04-02" -> 2024 [] date = "2024-03-05" -> 2024 [] date = "1999-12-31" -> 1999
      [] date = "2024-13-99" -> 2024 [] date = "0003-01-01" -> 3 [] date = "12024-02-29" -> 12024

ArrivalMonthDay(date) ==
    CASE date = "2024-04-02" -> "04-02" [] date = "2024-03-05" -> "03-05"
      [] date = "1999-12-31" -> "12-31" [] date = "2024-13-99" -> "13-99"
      [] date = "0003-01-01" -> "01-01" [] date = "12024-02-29" -> "02-29"

\* C10: genBirthDay returns the year arrival year - age, formatted as
\* formatIsoDate formats it, then the month-day of the season, matched without
\* regard to letter case, and the arrival's own month-day for any other string
C10_BirthDay ==
    uRet # NoResult =>
        /\ uRet.ok
        /\ uRet.val = putInt(ArrivalYear(uCall[3]) - uCall[1], 4) \o "-"
                         \o (IF SeasonMonthDay(uCall[2]) # "" THEN SeasonMonthDay(uCall[2])
                             ELSE ArrivalMonthDay(uCall[3]))
        /\ uCall = <<5, "Winter", "2024-04-02">> => uRet.val = "2019-12-15"
        /\ uCall = <<5, "martian-season", "2024-04-02">> => uRet.val = "2019-04-02"

C10_Witness ==
    /\ uCall = <<5, "Winter", "2024-04-02">>
    /\ uRet.ok
    /\ uRet.val = "2019-12-15"

\* a YYYY-MM-DD string: four digits, a dash, two digits, a dash, two digits
WellFormedIso(s) ==
    /\ Len(s) = 10
    /\ \A i \in {1, 2, 3, 4, 6, 7, 9, 10} :
          SubSeq(s, i, i) \in {"0", "1", "2", "3", "4", "5", "6", "7", "8", "9"}
    /\ SubSeq(s, 5, 5) = "-"
    /\ SubSeq(s, 8, 8) = "-"

\* the number a text of digits 0..9 writes, by the examples used
FieldValue(t) ==
    CASE t \in {"0000", "00"} -> 0 [] t \in {"0001", "01"} -> 1 [] t = "03" -> 3
      [] t = "05" -> 5 [] t = "09" -> 9 [] t = "12" -> 12 [] t = "13" -> 13 [] t = "31" -> 31
      [] t = "99" -> 99 [] t = "0999" -> 999 [] t = "1999" -> 1999 [] t = "2024" -> 2024
      [] t = "9999" -> 9999

\* C11: for a well-formed YYYY-MM-DD string with zero-padded fields
\* parseIsoDate returns the three numbers the fields write, with no check of
\* the calendar range (month 13, day 99, month 00 are accepted), and
\* formatIsoDate of that Date is the string itself
C11_IsoRoundTrip ==
    WellFormedIso(uCall) =>
        /\ uHist # NoResult =>
              /\ uHist.ok
              /\ uHist.val.year = FieldValue(SubSeq(uCall, 1, 4))
              /\ uHist.val.month = FieldValue(SubSeq(uCall, 6, 7))
              /\ uHist.val.day = FieldValue(SubSeq(uCall, 9, 10))
        /\ uRet # NoResult => (uRet.ok /\ uRet.val = uCall)

C11_Witness ==
    /\ uCall = "2024-13-99"
    /\ uHist.ok
    /\ uHist.val.month = 13
    /\ uRet.ok
    /\ uRet.val = "2024-13-99"

\* the position of the first occurrence of d in s (0-based), -1 if there is none
FirstOccurrence(s, d) ==
    LET at == {p \in 0..(Len(s) - Len(d)) : SubSeq(s, p + 1, p + Len(d)) = d}
    IN  IF at = {} THEN -1 ELSE CHOOSE p \in at : \A q \in at : p <= q

\* the number of characters of s cut away with the first i tokens
RECURSIVE CutOffset(_, _, _)
CutOffset(tokens, d, i) ==
    IF i = 0 THEN 0 ELSE CutOffset(tokens, d, i - 1) + Len(tokens[i]) + Len(d)

\* what remains of s after the first i tokens were cut
Remaining(tokens, s, d, i) == SubSeq(s, CutOffset(tokens, d, i) + 1, Len(s))

\* tokens are k cuts of s, each before the first occurrence of d in what
\* remained, followed by the remainder when it is not empty
IsCutting(tokens, s, d, k) ==
    /\ \A i \in 1..k :
          /\ FirstOccurrence(Remaining(tokens, s, d, i - 1), d) = Len(tokens[i])
          /\ tokens[i] = SubSeq(Remaining(tokens, s, d, i - 1), 1, Len(tokens[i]))
    /\ FirstOccurrence(Remaining(tokens, s, d, k), d) = -1
    /\ IF Remaining(tokens, s, d, k) = "" THEN Len(tokens) = k
       ELSE Len(tokens) = k + 1 /\ tokens[k + 1] = Remaining(tokens, s, d, k)

\* C12: split(s, d) with a non-empty d is the sequence of the substrings cut
\* before each first occurrence of d in what remains, in order, with the
\* remainder as last element when it is not empty: one element for a non-empty
\* s without d, none for the empty s, and <<"a", "b", "c">> for "a, b, c" cut
\* at ", "
C12_SplitCuts ==
    uRet # NoResult =>
        LET s == uCall[1]
            d == uCall[2]
            tokens == uRet.val
        IN  /\ \E k \in {Len(tokens) - 1, Len(tokens)} : k >= 0 /\ IsCutting(tokens, s, d, k)
            /\ (s # "" /\ FirstOccurrence(s, d) = -1) => tokens = <<s>>
            /\ s = "" => tokens = <<>>
            /\ (s = "a, b, c" /\ d = ", ") => tokens = <<"a", "b", "c">>
            /\ (s = "Kamari, Simba, " /\ d = ", ") => tokens = <<"Kamari", "Simba">>
            /\ (s = ", , a,b" /\ d = ", ") => tokens = <<"", "", "a,b">>
            /\ (s = "aaaaa" /\ d = "aa") => tokens = <<"", "", "a">>

C12_Witness ==
    /\ uCall = <<"a, b, c", ", ">>
    /\ uRet.ok
    /\ uRet.val = <<"a", "b", "c">>

\* the species words outside the four species, each with the error text the
\* run ends with on its arrival line
UnsupportedWords == {<<"zebra", "Unsupported species: zebra">>,
                     <<"Zebra", "Unsupported species: zebra">>,
                     <<"hyenas", "Unsupported species: hyenas">>}

\* main is about to read the arrival line of the unsupported species word w
ReadsSpeciesLine(w) ==
    /\ pc = "StreamingArrivals"
    /\ linePos < Len(arrivalsFile.lines)
    /\ arrivalsFile.lines[linePos + 1] = SpeciesLine(w)

\* C13: speciesPrefix returns Hy, Li, Ti, Be for hyena, lion, tiger, bear in
\* any letter case and throws "Unsupported species: {input}" for any other
\* input; the step of main that reads an (otherwise well-formed) arrival line
\* of another species ends the run with that error and exit code 1 and leaves
\* the id counters, the name pools, the species counts and the entities as
\* they were
C13_UnsupportedSpecies ==
    /\ [](uRet # NoResult =>
            /\ uCall[2] # "" => uRet = Ok(uCall[2])
            /\ uCall[2] = "" =>
                  (~uRet.ok /\ uRet.what = "Unsupported species: " \o uCall[1]))
    /\ [][\A u \in UnsupportedWords :
            ReadsSpeciesLine(u[1]) =>
               /\ pc' = "Failed"
               /\ exitCode' = 1
               /\ errWhat' = u[2]
               /\ idCounters' = idCounters
               /\ names' = names
               /\ speciesCounts' = speciesCounts
               /\ animals' = animals
               /\ animalsByHabitat' = animalsByHabitat]_vars

C13_Witness ==
    /\ pc = "Failed"
    /\ arrivalsFile.lines = <<SpeciesLine("HYENA"), SpeciesLine("Zebra")>>
    /\ linePos = 2
    /\ errWhat = "Unsupported species: zebra"
    /\ Len(animals) = 1
    /\ DOMAIN idCounters = {"Hy"}
    /\ idCounters["Hy"] = 1
    /\ DOMAIN names = {"hyena"}

\* the season the spec gives a segment 2: the token after "born in" where the
\* segment contains it (in the letter case of the segment or in lower case),
\* the whole trimmed segment otherwise, "unknown" when that is empty
SeasonsClaimed(segment) ==
    CASE segment = "born in spring"     -> {"spring"}
      [] segment = "Born In Summer"     -> {"Summer", "summer"}
      [] segment = "born in"            -> {"unknown"}
      [] segment = "was born in spring" -> {"spring"}
      [] segment = "cub born in Fall"   -> {"Fall", "fall"}
      [] segment = "Winter"             -> {"Winter"}
      [] segment = " early spring "     -> {"early spring"}
      [] segment = ""                   -> {"unknown"}
      [] segment = "born  in spring"    -> {"born  in spring"}
      [] segment = "reborn in autumn"   -> {"autumn"}

\* C14: the birth season of the row parseArrivalRow returns is the token that
\* follows "born in" wherever segment 2 contains it, the whole trimmed segment
\* otherwise, and "unknown" when that is empty
C14_SeasonAfterBornIn ==
    (uRet # NoResult /\ uRet.ok) => uRet.val.birthSeason \in SeasonsClaimed(uCall[2])

C14_Witness ==
    /\ uCall = <<"3 years old female hyena", "was born in spring", "70 pounds">>
    /\ uRet.ok
    /\ uRet.val.birthSeason = "in"

\* C16: every row parseArrivalRow returns has an age >= 0 and a weight > 0; a
\* line whose age token is negative, or whose weight token is zero or
\* negative, yields no row
C16_AgeWeightRanges ==
    uRet # NoResult =>
        /\ uRet.ok => (uRet.val.age >= 0 /\ uRet.val.weight > 0)
        /\ uCall[1] = "-3 years old female hyena" => ~uRet.ok
        /\ uCall[3] \in {"0 pounds", "-70 pounds"} => ~uRet.ok

C16_Witness ==
    /\ uCall = <<"-3 years old female hyena", "born in spring", "0 pounds">>
    /\ uRet.ok
    /\ uRet.val.age = -3
    /\ uRet.val.weight = 0

\* C15 as stated: at no point of a run more than one file is open: the
\* arrivals file is closed when the report is open for Rendering, and nothing
\* is open after an early exit
C15_OneHandleOpen ==
    /\ Cardinality(openFiles) <= 1
    /\ pc = "Rendering" => openFiles = {"report"}
    /\ pc = "Failed" => openFiles = {}

\* C15: the names file is open only while loadAnimalNames runs and is closed
\* before the arrivals file is opened; the arrivals file is open from then
\* until main leaves its try block, through StreamingArrivals and Rendering,
\* so that during Rendering the arrivals file and the report file are both
\* open (never more than two files); no file is open before the run, after a
\* normal end or after an early exit through the top-level handler
C15_HandleScopes ==
    /\ pc = "Idle" => openFiles = {}
    /\ pc = "LoadingNames" => openFiles = (IF namesFile.exists THEN {"names"} ELSE {})
    /\ pc = "StreamingArrivals" => openFiles = {"arrivals"}
    /\ pc = "Rendering" => openFiles = {"arrivals", "report"}
    /\ pc \in Terminal => openFiles = {}
    /\ "report" \in openFiles => reportOpened

C15_Witness ==
    /\ pc = "Rendering"
    /\ openFiles = {"arrivals", "report"}
    /\ renderPos = 2
    /\ Len(animals) = 1

====
